---- MODULE Spec2Model ----
(***************************************************************************)
(* Model of update_agents_json.py: the catalog synchronizer.  It loads the *)
(* JSON catalog agents.json, replaces each record's prompt by the body of  *)
(* its companion markdown file <id>.md (the text after the frontmatter),   *)
(* and writes the catalog back.                                            *)
(*                                                                         *)
(* Text is a sequence of characters.  Three characters stand for the three *)
(* classes the code tells apart: "-" (the delimiter's character), " "      *)
(* (whitespace, which str.strip removes) and "x" (anything else).          *)
(***************************************************************************)
EXTENDS Integers, Sequences, FiniteSets

\* ------------------------------------------------------------------ bounds
\* longest companion text enumerated for the extraction function
MaxLen == 10
\* largest number of delimiter-separated parts of a companion file of a run
MaxParts == 3

\* ------------------------------------------------------- text primitives
Alphabet == {"-", " ", "x"}
Whitespace == {" "}

\* '---', the frontmatter delimiter
Delim == <<"-", "-", "-">>
\* the maxsplit argument of content.split('---', 2)
MaxSplit == 2
\* len(parts) >= 3
MinParts == 3

\* s[i..] starts with the delimiter
DelimAt(s, i) ==
    /\ i >= 1
    /\ i + Len(Delim) - 1 <= Len(s)
    /\ \A j \in 1..Len(Delim) : s[i + j - 1] = Delim[j]

\* str.find: index of the leftmost delimiter in s, 0 when there is none
Find(s) ==
    IF \E i \in 1..Len(s) : DelimAt(s, i)
    THEN CHOOSE i \in 1..Len(s) :
            DelimAt(s, i) /\ \A j \in 1..(i - 1) : ~DelimAt(s, j)
    ELSE 0

RECURSIVE SplitAll(_, _)
\* content.split('---'): the maxsplit argument forgotten
SplitAll(s, maxsplit) ==
    IF Find(s) = 0
    THEN <<s>>
    ELSE <<SubSeq(s, 1, Find(s) - 1)>>
            \o SplitAll(SubSeq(s, Find(s) + Len(Delim), Len(s)), maxsplit)

RECURSIVE Split(_, _)
\* str.split(sep, maxsplit): cut at the leftmost delimiter, at most maxsplit
\* times, scanning on after each delimiter found
Split(s, maxsplit) ==
    IF maxsplit = 0 \/ Find(s) = 0
    THEN <<s>>
    ELSE <<SubSeq(s, 1, Find(s) - 1)>>
            \o Split(SubSeq(s, Find(s) + Len(Delim), Len(s)), maxsplit - 1)

RECURSIVE LStrip(_)
LStrip(s) ==
    IF s # <<>> /\ Head(s) \in Whitespace THEN LStrip(Tail(s)) ELSE s

RECURSIVE RStrip(_)
RStrip(s) ==
    IF s # <<>> /\ s[Len(s)] \in Whitespace
    THEN RStrip(SubSeq(s, 1, Len(s) - 1))
    ELSE s

\* str.lstrip() in the place of str.strip()
StripLeftOnly(s) == LStrip(s)

\* str.strip()
Strip(s) == RStrip(LStrip(s))

\* parts[2].strip() of the split content (Python indexes from 0)
BodyOf(parts) == Strip(parts[MinParts])

\* a file without frontmatter taken whole as the prompt
ExtractOrWhole(content) ==
    IF Len(Split(content, MaxSplit)) >= MinParts
    THEN BodyOf(Split(content, MaxSplit))
    ELSE Strip(content)

\* extract_prompt_from_markdown, after the file was read into content
ExtractPrompt(content) ==
    LET parts == Split(content, MaxSplit)
    IN  IF Len(parts) >= MinParts THEN BodyOf(parts) ELSE <<>>

\* ------------------------------------------ what the claims speak about
\* positions of the non-overlapping occurrences of the delimiter in s, left
\* to right, as str.count counts them
RECURSIVE Occurrences(_, _)
Occurrences(s, from) ==
    IF from > Len(s) THEN <<>>
    ELSE IF DelimAt(s, from)
         THEN <<from>> \o Occurrences(s, from + Len(Delim))
         ELSE Occurrences(s, from + 1)

NumDelims(s) == Len(Occurrences(s, 1))

\* the text after the second occurrence of the delimiter
AfterSecond(s) == SubSeq(s, Occurrences(s, 1)[2] + Len(Delim), Len(s))

AllWhitespace(s) == \A k \in 1..Len(s) : s[k] \in Whitespace

\* t is s without its leading and trailing whitespace
IsStripped(t, s) ==
    /\ t = <<>> \/ (t[1] \notin Whitespace /\ t[Len(t)] \notin Whitespace)
    /\ \E a, b \in 0..Len(s) :
          /\ a + Len(t) + b = Len(s)
          /\ AllWhitespace(SubSeq(s, 1, a))
          /\ SubSeq(s, a + 1, a + Len(t)) = t
          /\ AllWhitespace(SubSeq(s, a + Len(t) + 1, Len(s)))

\* t occurs in s
Contains(s, t) == \E k \in 1..Len(s) : SubSeq(s, k, k + Len(t) - 1) = t /\ k + Len(t) - 1 <= Len(s)

RECURSIVE Strings(_)
\* all texts of at most n characters
Strings(n) ==
    IF n = 0 THEN {<<>>}
    ELSE LET shorter == Strings(n - 1)
         IN  shorter
                \cup {Append(s, c) : s \in {t \in shorter : Len(t) = n - 1}, c \in Alphabet}

\* ------------------------------------------------------------ the world
\* record identifiers; <id>.md is the companion file of record id
Ids == {"a", "b"}
\* prompts the catalog may hold before a run
OldPrompts == {<<>>, <<"x", "x">>}
\* values of a field other than id and prompt
Roles == {"r"}

Record == [id : Ids, prompt : OldPrompts, role : Roles]

\* catalogs of records with unique ids; the ids are names that can be
\* exchanged, so one order of them stands for both
Catalogs ==
    {<<>>} \cup {<<r>> : r \in Record}
        \cup {c \in {<<r, q>> : r \in Record, q \in Record} :
                 c[1].id = "a" /\ c[2].id = "b"}

RECURSIVE Join(_)
\* the parts joined by the delimiter
Join(parts) ==
    IF Len(parts) = 1 THEN parts[1]
    ELSE parts[1] \o Delim \o Join(Tail(parts))

\* what stands between two delimiters of a companion file of a run
Segments == {<<>>, <<" ">>, <<" ", "x", " ">>}

RECURSIVE PartLists(_)
PartLists(n) ==
    IF n = 0 THEN {<<>>}
    ELSE LET fewer == PartLists(n - 1)
         IN  fewer
                \cup {Append(p, g) : p \in {t \in fewer : Len(t) = n - 1}, g \in Segments}

\* the companion texts of a run
Texts == {Join(p) : p \in PartLists(MaxParts) \ {<<>>}}

Absent == [exists |-> FALSE, text |-> <<>>]
Files == {Absent} \cup {[exists |-> TRUE, text |-> t] : t \in Texts}

\* the catalog file agents.json: missing, not JSON, truncated, or JSON text
\* with a layout and the array it denotes
NoFile == [kind |-> "missing", layout |-> "none", data |-> <<>>]
Garbage == [kind |-> "garbage", layout |-> "none", data |-> <<>>]
Truncated == [kind |-> "empty", layout |-> "none", data |-> <<>>]
\* the layout the catalog file has before the first run; a file laid out as
\* json.dump lays it out is what the second run finds
Layouts == {"other"}
JsonFile(layout, data) == [kind |-> "json", layout |-> layout, data |-> data]

\* json.load(f): the array the text denotes; its layout is lost
JsonLoad(file) == file.data
\* json.dump(agents, f, indent=2, ensure_ascii=False)
JsonDump(data) == JsonFile("indent2", data)

CatalogPath == "agents.json"
\* the path built from a fixed name, not from the agent's id
MdFileFixed(id) == "a"
MdFile(id) == id

Updated(id, p) == [kind |-> "updated", id |-> id, len |-> Len(p)]
NoContent(id) == [kind |-> "no_content", id |-> id, len |-> 0]
NotFound(id) == [kind |-> "not_found", id |-> id, len |-> 0]
Success == [kind |-> "success", id |-> CatalogPath, len |-> 0]

\* agent = {'id': ..., 'prompt': ...}: the other keys are dropped
SetPromptOnly(agent, p) == [id |-> agent.id, prompt |-> p, role |-> ""]
\* agent['prompt'] += full_prompt
SetPromptAppending(agent, p) == [agent EXCEPT !.prompt = @ \o p]
\* agent['prompt'] = full_prompt
SetPrompt(agent, p) == [agent EXCEPT !.prompt = p]
\* the assignment without the test "if full_prompt:"
UpdateAlways(as, k, p) == [as EXCEPT ![k] = [as[k] EXCEPT !.prompt = p]]
\* the agents list after the loop body ran for agents[k] with full_prompt p
UpdateAgent(as, k, p) ==
    IF p # <<>> THEN [as EXCEPT ![k] = SetPrompt(as[k], p)] ELSE as
\* the line printed for an agent whose companion file was read
Printed(id, p) == IF p # <<>> THEN Updated(id, p) ELSE NoContent(id)
\* the loop stops one agent early
LoopDoneEarly(k, as) == k >= Len(as)
\* the for loop is exhausted
LoopDone(k, as) == k > Len(as)
\* the file is truncated whether or not it can be written
OpenWTruncating(file, ok) == Truncated
\* open(path, 'w'): the file is truncated when the open succeeds
OpenW(file, ok) == IF ok THEN Truncated ELSE file
\* open() without with: the handle is never closed
CloseNothing(handles, f) == handles
\* leaving a with block closes its file
Close(handles, f) == handles \ {f}

\* ------------------------------------------------------------ the state
VARIABLES
    pc,       \* where the script is
    err,      \* the exception that ended the run, "none" while there is none
    disk,     \* the catalog file
    fs,       \* the companion files, by id
    agents,   \* the loaded list
    i,        \* index of the agent the loop is at (from 1)
    open,     \* the open file handles
    out,      \* the lines printed
    writes,   \* how often this run wrote the catalog file
    again,    \* this run follows a run that succeeded
    orig,     \* the catalog file as this run found it
    content,  \* the text handed to the extraction function alone
    prompt,   \* its result
    called

rvars == <<pc, err, disk, fs, agents, i, open, out, writes, again, orig>>
evars == <<content, prompt, called>>
vars == <<rvars, evars>>

\* ------------------------------------------- the extraction function alone
ExtractInit ==
    /\ content \in Strings(MaxLen)
    /\ prompt = <<>>
    /\ called = FALSE
    /\ pc = "idle" /\ err = "none" /\ disk = NoFile /\ fs = [d \in Ids |-> Absent]
    /\ agents = <<>> /\ i = 1 /\ open = {} /\ out = <<>> /\ writes = 0
    /\ again = FALSE /\ orig = NoFile

Extract ==
    /\ ~called
    /\ prompt' = ExtractPrompt(content)
    /\ called' = TRUE
    /\ UNCHANGED <<content, rvars>>

ExtractNext == Extract

SpecExtract == ExtractInit /\ [][ExtractNext]_vars

\* ---------------------------------------------------------------- a run
Init ==
    /\ pc = "start" /\ err = "none"
    /\ disk \in {NoFile, Garbage} \cup {JsonFile(l, c) : l \in Layouts, c \in Catalogs}
    /\ fs \in [Ids -> Files]
    \* a file of an id the catalog does not name is never looked at
    /\ \A d \in Ids : (\A k \in 1..Len(disk.data) : disk.data[k].id # d) => fs[d] = Absent
    /\ agents = <<>> /\ i = 1 /\ open = {} /\ out = <<>> /\ writes = 0
    /\ again = FALSE /\ orig = disk
    /\ content = <<>> /\ prompt = <<>> /\ called = TRUE

Raise(e) == pc' = "failed" /\ err' = e

\* with open(agents_json_path, 'r', encoding='utf-8') as f:
OpenCatalog ==
    /\ pc = "start"
    /\ IF disk.kind = "missing"
       THEN Raise("FileNotFoundError") /\ UNCHANGED open
       ELSE pc' = "load" /\ open' = open \cup {CatalogPath} /\ UNCHANGED err
    /\ UNCHANGED <<disk, fs, agents, i, out, writes, again, orig, evars>>

\* agents = json.load(f), and the with block is left
LoadCatalog ==
    /\ pc = "load"
    /\ open' = Close(open, CatalogPath)
    /\ IF disk.kind = "json"
       THEN pc' = "loop" /\ agents' = JsonLoad(disk) /\ UNCHANGED err
       ELSE Raise("JSONDecodeError") /\ UNCHANGED agents
    /\ UNCHANGED <<disk, fs, i, out, writes, again, orig, evars>>

\* the loop has an agent left and os.path.exists(md_file) holds
AtCompanion ==
    /\ pc = "loop"
    /\ ~LoopDone(i, agents)
    /\ fs[MdFile(agents[i].id)].exists

\* for agent in agents: ... os.path.exists(md_file) fails:
\* print(f"Warning: Markdown file not found for {agent['id']}")
SkipMissing ==
    /\ pc = "loop"
    /\ ~LoopDone(i, agents)
    /\ ~fs[MdFile(agents[i].id)].exists
    /\ out' = Append(out, NotFound(agents[i].id))
    /\ i' = i + 1
    /\ UNCHANGED <<pc, err, disk, fs, agents, open, writes, again, orig, evars>>

\* the file exists; with open(file_path, 'r', encoding='utf-8') as f:
OpenCompanion ==
    /\ AtCompanion
    /\ pc' = "read"
    /\ open' = open \cup {MdFile(agents[i].id)}
    /\ UNCHANGED <<err, disk, fs, agents, i, out, writes, again, orig, evars>>

\* the file exists and the open raises: it cannot be read (PermissionError,
\* IsADirectoryError)
OpenCompanionFails ==
    /\ AtCompanion
    /\ Raise("OSError")
    /\ UNCHANGED <<disk, fs, agents, i, open, out, writes, again, orig, evars>>

\* content = f.read(), the with block is left, the prompt is extracted and
\* the loop body finishes with the agent
ReadCompanion ==
    /\ pc = "read"
    /\ open' = Close(open, MdFile(agents[i].id))
    /\ LET full_prompt == ExtractPrompt(fs[MdFile(agents[i].id)].text)
       IN  /\ agents' = UpdateAgent(agents, i, full_prompt)
           /\ out' = Append(out, Printed(agents[i].id, full_prompt))
    /\ i' = i + 1
    /\ pc' = "loop"
    /\ UNCHANGED <<err, disk, fs, writes, again, orig, evars>>

\* f.read() raises (UnicodeDecodeError, an I/O error): the with block closes f
ReadCompanionFails ==
    /\ pc = "read"
    /\ open' = Close(open, MdFile(agents[i].id))
    /\ Raise("ReadError")
    /\ UNCHANGED <<disk, fs, agents, i, out, writes, again, orig, evars>>

\* with open(agents_json_path, 'w', encoding='utf-8') as f:
OpenCatalogForWrite ==
    /\ pc = "loop"
    /\ LoopDone(i, agents)
    /\ \E ok \in BOOLEAN :
          /\ disk' = OpenW(disk, ok)
          /\ IF ok
             THEN pc' = "dump" /\ open' = open \cup {CatalogPath} /\ UNCHANGED err
             ELSE Raise("PermissionError") /\ UNCHANGED open
    /\ UNCHANGED <<fs, agents, i, out, writes, again, orig, evars>>

\* json.dump(agents, f, indent=2, ensure_ascii=False), and the with block is left
DumpCatalog ==
    /\ pc = "dump"
    /\ disk' = JsonDump(agents)
    /\ writes' = writes + 1
    /\ open' = Close(open, CatalogPath)
    /\ pc' = "print"
    /\ UNCHANGED <<err, fs, agents, i, out, again, orig, evars>>

\* print(f"\nSuccessfully updated {agents_json_path}")
PrintSuccess ==
    /\ pc = "print"
    /\ out' = Append(out, Success)
    /\ pc' = "done"
    /\ UNCHANGED <<err, disk, fs, agents, i, open, writes, again, orig, evars>>

\* the script is run again, the companion files as they were
Rerun ==
    /\ pc = "done"
    /\ again' = TRUE
    /\ orig' = disk
    /\ pc' = "start" /\ agents' = <<>> /\ i' = 1 /\ out' = <<>> /\ writes' = 0
    /\ UNCHANGED <<err, disk, fs, open, evars>>

Next ==
    \/ OpenCatalog
    \/ LoadCatalog
    \/ SkipMissing
    \/ OpenCompanion
    \/ OpenCompanionFails
    \/ ReadCompanion
    \/ ReadCompanionFails
    \/ OpenCatalogForWrite
    \/ DumpCatalog
    \/ PrintSuccess
    \/ Rerun

Spec == Init /\ [][Next]_vars

\* ============================================================== the claims
\* the companion file of the k-th agent
FileOf(k) == fs[agents[k].id]
\* the loop body has run for the k-th agent
Processed(k) == k \in 1..Len(agents) /\ k < i
\* the prompt the k-th record had when the run began
PromptBefore(k) == IF k <= Len(orig.data) THEN orig.data[k].prompt ELSE <<"?">>
\* the k-th line printed
Line(k) == IF k <= Len(out) THEN out[k] ELSE [kind |-> "nothing", id |-> "", len |-> 0]
\* the file has frontmatter (two delimiters) and a body that is not blank
WellFormed(t) == NumDelims(t) >= 2 /\ ~AllWhitespace(AfterSecond(t))
Ended == pc \in {"done", "failed"}
EndsWith(s, t) == Len(t) <= Len(s) /\ SubSeq(s, Len(s) - Len(t) + 1, Len(s)) = t

\* C1: after a successful run, the prompt of every record whose companion
\* file exists and holds the delimiter at least twice (occurrences counted
\* left to right without overlap) with text that is not blank after the
\* second one is that text without its leading and trailing whitespace, in
\* memory and in the catalog file written.
C1_PromptIsStrippedBody ==
    pc = "done" =>
        /\ disk.kind = "json"
        /\ Len(disk.data) = Len(agents)
        /\ \A k \in 1..Len(agents) :
              (FileOf(k).exists /\ WellFormed(FileOf(k).text)) =>
                  /\ IsStripped(agents[k].prompt, AfterSecond(FileOf(k).text))
                  /\ disk.data[k].prompt = agents[k].prompt
                  /\ Line(k) = Updated(agents[k].id, agents[k].prompt)

C1_Witness ==
    /\ pc = "done"
    /\ \E k \in 1..Len(agents) :
          /\ FileOf(k).exists /\ WellFormed(FileOf(k).text)
          /\ Len(agents[k].prompt) + 2 <= Len(AfterSecond(FileOf(k).text))
          /\ disk.data[k].prompt # PromptBefore(k)

\* C2: a record without companion file gets a warning that names it and
\* keeps the prompt it had; the run is not ended by it, and a run that
\* succeeds has gone through every record.
C2_MissingFileSkipped ==
    /\ \A k \in 1..Len(agents) :
          (Processed(k) /\ ~FileOf(k).exists) =>
              /\ Line(k) = NotFound(agents[k].id)
              /\ agents[k].prompt = PromptBefore(k)
              /\ pc = "done" => disk.data[k].prompt = PromptBefore(k)
    /\ (pc = "failed" /\ i <= Len(agents)) => FileOf(i).exists
    /\ pc = "done" =>
          /\ i = Len(agents) + 1
          /\ Len(out) = Len(agents) + 1
          /\ \A k \in 1..Len(agents) : out[k].id = agents[k].id

C2_Witness ==
    /\ pc = "done"
    /\ Len(agents) = 2
    /\ ~FileOf(1).exists
    /\ PromptBefore(1) # <<>>
    /\ Line(2).kind = "updated"

\* C3: the run never changes the number or the order of the records, nor
\* any field but prompt, in memory or in the catalog file it writes.
C3_OnlyPromptChanges ==
    /\ agents # <<>> =>
          /\ Len(agents) = Len(orig.data)
          /\ \A k \in 1..Len(agents) :
                [agents[k] EXCEPT !.prompt = PromptBefore(k)] = orig.data[k]
    /\ pc = "done" =>
          /\ disk.kind = "json"
          /\ Len(disk.data) = Len(orig.data)
          /\ \A k \in 1..Len(orig.data) :
                [disk.data[k] EXCEPT !.prompt = PromptBefore(k)] = orig.data[k]

C3_Witness ==
    /\ pc = "done"
    /\ Len(orig.data) = 2
    /\ disk.data[1].prompt # PromptBefore(1)
    /\ disk.data[2].prompt # PromptBefore(2)

\* C4: a run that follows a successful run, the companion files unchanged,
\* leaves the catalog file as that first run left it.
C4_Idempotent ==
    (again /\ Ended) => disk = orig

C4_Witness ==
    /\ again
    /\ pc = "done"
    /\ \E k \in 1..Len(out) : out[k].kind = "updated"
    /\ \E k \in 1..Len(out) : out[k].kind = "no_content"

\* C5: a record whose companion file exists with fewer than two delimiters
\* keeps its prompt and gets a warning.
C5_NoFrontmatterSkipped ==
    \A k \in 1..Len(agents) :
        (Processed(k) /\ FileOf(k).exists /\ NumDelims(FileOf(k).text) < 2) =>
            /\ agents[k].prompt = PromptBefore(k)
            /\ Line(k) = NoContent(agents[k].id)
            /\ pc = "done" => disk.data[k].prompt = PromptBefore(k)

C5_Witness ==
    /\ pc = "done"
    /\ \E k \in 1..Len(agents) :
          /\ FileOf(k).exists
          /\ NumDelims(FileOf(k).text) = 1
          /\ ~AllWhitespace(FileOf(k).text)
          /\ PromptBefore(k) # <<>>

\* C6: a record whose companion file has two delimiters and nothing but
\* whitespace after the second keeps its prompt and gets a warning; the run
\* never sets a prompt to the empty text.
C6_BlankBodySkipped ==
    /\ \A k \in 1..Len(agents) :
          (Processed(k) /\ FileOf(k).exists /\ NumDelims(FileOf(k).text) >= 2
              /\ AllWhitespace(AfterSecond(FileOf(k).text))) =>
              /\ agents[k].prompt = PromptBefore(k)
              /\ Line(k) = NoContent(agents[k].id)
    /\ \A k \in 1..Len(agents) :
          /\ agents[k].prompt = <<>> => PromptBefore(k) = <<>>
          /\ Line(k).kind = "updated" => agents[k].prompt # <<>>
    /\ pc = "done" =>
          \A k \in 1..Len(disk.data) :
              disk.data[k].prompt = <<>> => PromptBefore(k) = <<>>

C6_Witness ==
    /\ pc = "done"
    /\ \E k \in 1..Len(agents) :
          /\ FileOf(k).exists
          /\ NumDelims(FileOf(k).text) >= 2
          /\ AfterSecond(FileOf(k).text) # <<>>
          /\ AllWhitespace(AfterSecond(FileOf(k).text))
          /\ PromptBefore(k) # <<>>

\* C7: a run ended by a missing catalog, a catalog that is not JSON, a
\* catalog that cannot be opened for writing or a companion file that cannot
\* be read has left the catalog file as it found it, has printed no success
\* line and has processed no record after the error; a run that ended left
\* the catalog file either as it found it or holding the whole updated list.
C7_FatalErrorLeavesCatalog ==
    /\ pc = "failed" =>
          /\ err # "none"
          /\ disk = orig
          /\ writes = 0
          /\ \A k \in 1..Len(out) : out[k] # Success
          /\ Len(out) = i - 1
          /\ \A k \in i..Len(agents) : k <= Len(orig.data) /\ agents[k] = orig.data[k]
    /\ Ended => (disk = orig \/ disk = JsonDump(agents))

C7_Witness ==
    /\ pc = "failed"
    /\ err = "PermissionError"
    /\ Len(agents) = 2
    /\ agents[1].prompt # PromptBefore(1)

\* C8: of a text with more than two delimiters the prompt is all that
\* follows the second one, stripped: it begins after the second delimiter
\* and runs to the end of the text, the third delimiter and what follows it
\* included.
C8_CutAtSecondDelimiter ==
    (called /\ NumDelims(content) >= 3) =>
        LET third == SubSeq(content, Occurrences(content, 1)[3], Len(content))
        IN  /\ IsStripped(prompt, AfterSecond(content))
            /\ Contains(prompt, Delim)
            /\ \E b \in 0..Len(third) :
                  /\ AllWhitespace(SubSeq(third, Len(third) - b + 1, Len(third)))
                  /\ third[Len(third) - b] \notin Whitespace
                  /\ EndsWith(prompt, SubSeq(third, 1, Len(third) - b))

C8_Witness ==
    /\ called
    /\ NumDelims(content) >= 3
    /\ Occurrences(content, 1)[3] > Occurrences(content, 1)[2] + Len(Delim)
    /\ prompt[1] = "x"

\* C9: the catalog file is written at most once in a run, and not before
\* the loop has gone through every record, each with its line printed, in
\* the order of the catalog; the success line is printed last, when the
\* write is complete.
C9_SingleWriteAfterLoop ==
    /\ writes <= 1
    /\ (writes = 1 \/ pc = "dump" \/ disk # orig) =>
          /\ LoopDone(i, agents) /\ i = Len(agents) + 1
          /\ Len(out) >= Len(agents)
          /\ \A k \in 1..Len(agents) :
                Line(k).id = agents[k].id /\ Line(k).kind # "success"
    /\ \A k \in 1..Len(out) :
          out[k] = Success =>
              /\ k = Len(out) /\ k = Len(agents) + 1
              /\ writes = 1
              /\ open = {}
              /\ disk = JsonDump(agents)

C9_Witness ==
    /\ pc = "done"
    /\ Len(agents) = 2
    /\ writes = 1
    /\ out[3] = Success

\* C10: at most one file is open at any time, and none when the run has
\* ended, normally or by an error.
C10_HandlesScoped ==
    /\ Cardinality(open) <= 1
    /\ Ended => open = {}
    /\ pc \in {"start", "loop", "print"} => open = {}

C10_Witness ==
    /\ pc = "failed"
    /\ err = "ReadError"
    /\ i = 2
    /\ open = {}

====
